---- MODULE Spec2Model ----
(***************************************************************************)
(* Model of src/core/hle/service/audio/hwopus.cpp: the hwopus service      *)
(* (HwOpus::GetWorkBufferSize, HwOpus::OpenOpusDecoder) and the decoder    *)
(* sessions it hands out (IHardwareOpusDecoderManager::DecodeInterleaved   *)
(* and DecodeInterleavedWithPerformance).  libopus is an external codec:   *)
(* its return values are chosen nondeterministically and the arguments it  *)
(* is given are recorded.                                                  *)
(***************************************************************************)
EXTENDS Integers, Sequences, FiniteSets, TLC

VARIABLES
    sessions,   \* the session objects created so far, by handle
    heap,       \* the scratch buffers allocated so far, by address
    crashed,    \* a fatal assertion has ended the process
    last,       \* the call being answered: request, response, codec calls
    failed_on,  \* history: the session whose decode call was the last response
                \* the client took and had failed, 0 if there is none
    callers     \* the decode call of each concurrent client: not issued,
                \* waiting for the service, or inside its handler

vars == <<sessions, heap, crashed, last, failed_on, callers>>

----------------------------------------------------------------------------
(* Bounds of the model *)

MaxAllocs == 1     \* scratch buffers allocated over a run
MaxBody == 1       \* input bytes after the 8-byte header
MaxCap == 4        \* declared size of the caller's output buffer, in bytes
MaxSamples == 1    \* samples per channel the codec reports
MaxBufferSz == 4   \* caller-supplied work buffer size
MaxTicks == 1      \* clock ticks one phase of a decode call takes
MaxSessions == 2   \* scratch buffers allocated where sessions run side by side

----------------------------------------------------------------------------
(* Program constants *)

HeaderSize == 8    \* sizeof(OpusHeader)
SampleSize == 2    \* sizeof(opus_int16), sizeof(s16), sizeof(u16)
Base == 256        \* one byte
U32Bytes == 4      \* sizeof(u32)
TicksPerMs == 2    \* clock ticks in one millisecond
SizeTBytes == 8    \* sizeof(std::size_t)

----------------------------------------------------------------------------
(* Fixed-width unsigned integers, as little-endian sequences of bytes, so  *)
(* that values up to 2^64 are computed exactly as the C++ does.            *)

\* byte i (1 = least significant) of a natural number below 2^31
Digit(n, i) == IF i > U32Bytes THEN 0 ELSE (n \div (Base ^ (i - 1))) % Base

\* a natural number below 2^31 as a k-byte unsigned integer
U(n, k) == [i \in 1..k |-> Digit(n, i)]

\* conversion of a (possibly negative) int to u32: two's complement
IntToU32(n) ==
    IF n >= 0 THEN U(n, U32Bytes)
    ELSE [i \in 1..U32Bytes |-> (Base - 1) - Digit((-n) - 1, i)]

\* integral promotion of an unsigned value to k bytes
Widen(a, k) == [i \in 1..k |-> IF i <= Len(a) THEN a[i] ELSE 0]

\* conversion to a narrower unsigned type: the value modulo Base^k
Trunc(a, k) == [i \in 1..k |-> a[i]]

\* a + b in the width of a and b, wrapping
AddU(a, b) ==
    LET k == Len(a)
        carry[i \in 0..k] ==
            IF i = 0 THEN 0 ELSE (a[i] + b[i] + carry[i - 1]) \div Base
    IN [i \in 1..k |-> (a[i] + b[i] + carry[i - 1]) % Base]

\* a * c in the width of a, wrapping, for a small natural c
MulU(a, c) ==
    LET k == Len(a)
        carry[i \in 0..k] ==
            IF i = 0 THEN 0 ELSE (a[i] * c + carry[i - 1]) \div Base
    IN [i \in 1..k |-> (a[i] * c + carry[i - 1]) % Base]

\* a > b for unsigned values of the same width
GtU(a, b) ==
    \E i \in 1..Len(a) : a[i] > b[i] /\ \A j \in (i + 1)..Len(a) : a[j] = b[j]

\* the value of an unsigned integer that is below 2^31
NatOf(a) ==
    LET sum[i \in 0..Len(a)] ==
            IF i = 0 THEN 0
            ELSE sum[i - 1] + (IF a[i] = 0 THEN 0 ELSE a[i] * (Base ^ (i - 1)))
    IN sum[Len(a)]

----------------------------------------------------------------------------
(* Inputs the callers send *)

SampleRates == {8000, 12000, 16000, 24000, 48000, 44100, 0}
ChannelCounts == {0, 1, 2, 3}
BufferSizes == 0..MaxBufferSz

----------------------------------------------------------------------------
(* The codec (libopus) and the assertion macro *)

\* opus_decoder_get_size: a size that depends on the channel count only
opus_decoder_get_size(channels) == channels + 1

\* opus_decoder_init: OPUS_OK, or a negative status
InitResults == {0, -1, -3}

\* ASSERT_MSG(cond, ...): TRUE iff execution continues past the assertion;
\* a failed assertion is fatal and ends the process.
ASSERT_MSG(cond) == cond

----------------------------------------------------------------------------
(* The decoder factory, HwOpus *)

\* mutant: a range check instead of the list of rates
ValidSampleRate_Range(sample_rate) == sample_rate >= 8000 /\ sample_rate <= 48000

ValidSampleRate(sample_rate) ==
    \/ sample_rate = 48000
    \/ sample_rate = 24000
    \/ sample_rate = 16000
    \/ sample_rate = 12000
    \/ sample_rate = 8000

ValidChannelCount(channel_count) == channel_count = 1 \/ channel_count = 2

\* static std::size_t WorkerBufferSize(u32 channel_count): the value returned
\* once its own assertion has passed
\* mutant: the size of a one-channel decoder for every channel count
WorkerBufferSize_Mono(channel_count) == opus_decoder_get_size(1)

WorkerBufferSize(channel_count) == opus_decoder_get_size(channel_count)

\* mutant: the comparison the wrong way round
BufferLargeEnough_Reversed(buffer_sz, worker_sz) == worker_sz >= buffer_sz

\* ASSERT_MSG(buffer_sz >= worker_sz, ...)
BufferLargeEnough(buffer_sz, worker_sz) == buffer_sz >= worker_sz

\* operator new(worker_sz): a fresh block at the end of the heap
OperatorNew(h, size) == Append(h, [size |-> size, freed |-> 0])

\* mutant: a deleter that releases nothing
OpusDeleter_Leak(h, ptr) == h

\* OpusDeleter::operator(): operator delete(ptr)
OpusDeleter(h, ptr) == [h EXCEPT ![ptr].freed = @ + 1]

\* the session object PushIpcInterface constructs and registers
NewSession(decoder, sample_rate, channel_count) ==
    [state |-> "Open", decoder |-> decoder,
     sample_rate |-> sample_rate, channel_count |-> channel_count]

\* no call in flight: the service handles one request at a time and the
\* client has taken the previous response
NoCall == [op |-> "None", status |-> "None", rb |-> <<>>, calls |-> <<>>]

Idle == ~crashed /\ last = NoCall

Aborted(op, req) ==
    /\ crashed' = TRUE
    /\ last' = [op |-> op, req |-> req, status |-> "Aborted",
                rb |-> <<>>, calls |-> <<>>]
    /\ UNCHANGED <<sessions, heap, failed_on>>

GetWorkBufferSize ==
    /\ Idle
    /\ \E sample_rate \in SampleRates, channel_count \in ChannelCounts :
         LET req == [sample_rate |-> sample_rate, channel_count |-> channel_count]
         IN IF \/ ~ASSERT_MSG(ValidSampleRate(sample_rate))
               \/ ~ASSERT_MSG(ValidChannelCount(channel_count))
               \/ ~ASSERT_MSG(ValidChannelCount(channel_count))  \* in WorkerBufferSize
            THEN Aborted("GetWorkBufferSize", req)
            ELSE LET worker_buffer_sz ==
                         NatOf(Trunc(U(WorkerBufferSize(channel_count), SizeTBytes),
                                     U32Bytes))
                 IN /\ last' = [op |-> "GetWorkBufferSize", req |-> req,
                                status |-> "Success",
                                rb |-> <<"RESULT_SUCCESS", worker_buffer_sz>>,
                                calls |-> <<"opus_decoder_get_size">>]
                    /\ UNCHANGED <<sessions, heap, crashed, failed_on>>

\* HwOpus::OpenOpusDecoder, while fewer than limit scratch buffers have
\* been allocated
OpenOpusDecoderUpTo(limit) ==
    /\ Idle
    /\ \E sample_rate \in SampleRates, channel_count \in ChannelCounts,
          buffer_sz \in BufferSizes :
         LET req == [sample_rate |-> sample_rate, channel_count |-> channel_count,
                     buffer_sz |-> buffer_sz]
         IN IF \/ ~ASSERT_MSG(ValidSampleRate(sample_rate))
               \/ ~ASSERT_MSG(ValidChannelCount(channel_count))
               \/ ~ASSERT_MSG(ValidChannelCount(channel_count))  \* in WorkerBufferSize
            THEN Aborted("OpenOpusDecoder", req)
            ELSE LET worker_sz == WorkerBufferSize(channel_count) IN
                 IF ~ASSERT_MSG(BufferLargeEnough(buffer_sz, worker_sz))
                 THEN /\ crashed' = TRUE
                      /\ last' = [op |-> "OpenOpusDecoder", req |-> req,
                                  status |-> "Aborted", rb |-> <<>>,
                                  calls |-> <<"opus_decoder_get_size">>]
                      /\ UNCHANGED <<sessions, heap, failed_on>>
                 ELSE /\ Len(heap) < limit
                      /\ LET heap1 == OperatorNew(heap, worker_sz)
                             decoder == Len(heap1)
                         IN \E err \in InitResults :
                              IF err # 0
                              THEN /\ heap' = OpusDeleter(heap1, decoder)
                                   /\ last' = [op |-> "OpenOpusDecoder", req |-> req,
                                               status |-> "Failure",
                                               rb |-> <<"ResultCode(-1)">>,
                                               decoder |-> decoder, err |-> err,
                                               calls |-> <<"opus_decoder_get_size",
                                                           "operator new",
                                                           "opus_decoder_init",
                                                           "operator delete">>]
                                   /\ UNCHANGED <<sessions, crashed, failed_on>>
                              ELSE /\ heap' = heap1
                                   /\ sessions' =
                                        Append(sessions,
                                               NewSession(decoder, sample_rate,
                                                          channel_count))
                                   /\ last' = [op |-> "OpenOpusDecoder", req |-> req,
                                               status |-> "Success",
                                               rb |-> <<"RESULT_SUCCESS">>,
                                               decoder |-> decoder, err |-> err,
                                               handle |-> Len(sessions) + 1,
                                               calls |-> <<"opus_decoder_get_size",
                                                           "operator new",
                                                           "opus_decoder_init",
                                                           "PushIpcInterface">>]
                                   /\ UNCHANGED <<crashed, failed_on>>

OpenOpusDecoder == OpenOpusDecoderUpTo(MaxAllocs)

\* mutant: the buffer is released but the handle stays usable
CloseSession_KeepsOpen(self) ==
    /\ Idle
    /\ sessions[self].state = "Open"
    /\ heap' = OpusDeleter(heap, sessions[self].decoder)
    /\ last' = [op |-> "Close", session |-> self, status |-> "Success",
                rb |-> <<>>, calls |-> <<"operator delete">>]
    /\ UNCHANGED <<sessions, crashed, failed_on>>

\* The client closes its handle: the session object is destroyed and its
\* unique_ptr member runs OpusDeleter on the scratch buffer.
CloseSession(self) ==
    /\ Idle
    /\ sessions[self].state = "Open"
    /\ heap' = OpusDeleter(heap, sessions[self].decoder)
    /\ sessions' = [sessions EXCEPT ![self] =
                      [state |-> "Closed", decoder |-> @.decoder,
                       sample_rate |-> 0, channel_count |-> 0]]
    /\ last' = [op |-> "Close", session |-> self, status |-> "Success",
                rb |-> <<>>, calls |-> <<"operator delete">>]
    /\ UNCHANGED <<crashed, failed_on>>

----------------------------------------------------------------------------
(* Decode requests *)

\* the 4-byte big-endian length fields the callers send
HeaderLengths ==
    {<<0, 0, 0, n>> : n \in 0..(MaxBody + 1)}
        \cup {<<1, 0, 0, 0>>, <<255, 255, 255, 248>>, <<255, 255, 255, 255>>}

\* n bytes of payload or of trailing data
Body(n) == [i \in 1..n |-> 0]

\* inputs: truncated headers, and a header followed by 0..MaxBody bytes
Inputs ==
    {Body(n) : n \in 0..(HeaderSize - 1)}
        \cup {h \o <<0, 0, 0, 0>> \o Body(n) : h \in HeaderLengths, n \in 0..MaxBody}

WriteBufferSizes == 0..MaxCap

\* opus_packet_get_nb_samples: a sample count, OPUS_BAD_ARG or
\* OPUS_INVALID_PACKET
ProbeResults == {-4, -1} \cup (0..MaxSamples)

\* opus_decode: at most frame_size samples per channel, or a negative status
DecodeResults(frame_size) ==
    {-4} \cup {n \in 0..MaxSamples : n <= frame_size}

\* the values of the samples the codec produces
PcmValues == {-1, 1}

----------------------------------------------------------------------------
(* The decoder session, IHardwareOpusDecoderManager *)

\* sizeof(OpusHeader) > input.size()
HeaderMissing(input) == HeaderSize > Len(input)

\* std::memcpy(&hdr, ...) and the read of the u32_be field hdr.sz
ParseHeader(input) == [i \in 1..U32Bytes |-> input[U32Bytes + 1 - i]]

\* mutant: the sum computed in u32, so that it wraps
PayloadExceeds_Wrap32(sz, input_size) ==
    GtU(AddU(U(HeaderSize, U32Bytes), sz), U(input_size, U32Bytes))

\* sizeof(OpusHeader) + static_cast<u32>(hdr.sz) > input.size(), in std::size_t
PayloadExceeds(sz, input_size) ==
    GtU(AddU(U(HeaderSize, SizeTBytes), Widen(sz, SizeTBytes)),
        U(input_size, SizeTBytes))

\* mutant: the channel count left out of the size of the decoded data
CapacityExceeded_NoChannels(decoded_sample_count, channel_count, raw_output_sz) ==
    GtU(MulU(Widen(IntToU32(decoded_sample_count), SizeTBytes), SampleSize),
        U(raw_output_sz, SizeTBytes))

\* mutant: the product computed in signed integers, so that it does not wrap
CapacityExceeded_Signed(decoded_sample_count, channel_count, raw_output_sz) ==
    decoded_sample_count * channel_count * SampleSize > raw_output_sz

\* decoded_sample_count * channel_count * sizeof(u16) > raw_output_sz:
\* int * u32 is computed in u32, the product with sizeof in std::size_t
CapacityExceeded(decoded_sample_count, channel_count, raw_output_sz) ==
    GtU(MulU(Widen(MulU(IntToU32(decoded_sample_count), channel_count),
                   SizeTBytes),
             SampleSize),
        U(raw_output_sz, SizeTBytes))

\* mutant: the ceiling counted in samples of all channels together
FrameSize_NoChannels(raw_output_sz, channel_count) ==
    raw_output_sz \div SampleSize

\* static_cast<int>(raw_output_sz / sizeof(s16) / channel_count)
FrameSize(raw_output_sz, channel_count) ==
    (raw_output_sz \div SampleSize) \div channel_count

\* conversion of the u32 hdr.sz to the opus_int32 len parameter
U32ToInt(a) ==
    IF a[U32Bytes] * 2 >= Base
    THEN -(NatOf([i \in 1..U32Bytes |-> (Base - 1) - a[i]]) + 1)
    ELSE NatOf(a)

\* mutant: the header left out of the consumed byte count
Consumed_PayloadOnly(sz) == Trunc(Widen(sz, SizeTBytes), U32Bytes)

\* consumed = static_cast<u32>(sizeof(OpusHeader) + hdr.sz)
Consumed(sz) ==
    Trunc(AddU(U(HeaderSize, SizeTBytes), Widen(sz, SizeTBytes)), U32Bytes)

\* end_time = now() - start_time, with start_time taken on entry:
\* before_decode ticks pass up to the call of opus_decode, in_decode in it
EndTime(before_decode, in_decode) == before_decode + in_decode

\* duration_cast<milliseconds>(end_time).count()
Milliseconds(ticks) == ticks \div TicksPerMs

\* the output vector after opus_decode wrote the samples it produced
SamplesAfterDecode(output_len, pcm) ==
    [i \in 1..output_len |-> IF i <= Len(pcm) THEN pcm[i] ELSE 0]

\* mutant: every session hands the first scratch buffer to the codec
DecoderGet_Shared(self) == 1

\* decoder.get(): the scratch buffer of this session
DecoderGet(self) == self.decoder

\* mutant: the probe's estimate reported as the sample count
SampleCount_Estimate(decoded_sample_count, out_sample_count) ==
    decoded_sample_count

\* sample_count = out_sample_count
SampleCount(decoded_sample_count, out_sample_count) == out_sample_count

Failed(error, calls) ==
    [ok |-> FALSE, error |-> error, calls |-> calls]

\* bool Decoder_DecodeInterleaved(consumed, sample_count, input, output,
\* performance_time): the outcomes the codec allows
Decoder_DecodeInterleaved(self, input, output_len, timed) ==
    LET raw_output_sz == output_len * SampleSize IN
    IF HeaderMissing(input)
    THEN {Failed("Input is smaller than the header size", <<>>)}
    ELSE
    LET sz == ParseHeader(input) IN
    IF PayloadExceeds(sz, Len(input))
    THEN {Failed("Input does not fit in the opus header size", <<>>)}
    ELSE
    UNION {
      LET probe == [fn |-> "opus_packet_get_nb_samples",
                    len |-> Len(input) - HeaderSize,
                    Fs |-> self.sample_rate,
                    ret |-> decoded_sample_count]
      IN
      IF CapacityExceeded(decoded_sample_count, self.channel_count, raw_output_sz)
      THEN {Failed("Decoded data does not fit into the output data", <<probe>>)}
      ELSE
      LET frame_size == FrameSize(raw_output_sz, self.channel_count) IN
      UNION {
        LET decode == [fn |-> "opus_decode", decoder |-> DecoderGet(self),
                       len |-> U32ToInt(sz), frame_size |-> frame_size,
                       ret |-> out_sample_count]
        IN
        IF out_sample_count < 0
        THEN {Failed("Incorrect sample count received from opus_decode",
                     <<probe, decode>>)}
        ELSE
        { [ok |-> TRUE, error |-> "", calls |-> <<probe, decode>>,
           sample_count |-> SampleCount(decoded_sample_count, out_sample_count),
           consumed |-> Consumed(sz),
           pcm |-> [i \in 1..(out_sample_count * self.channel_count) |-> v],
           in_decode |-> t[2],
           performance |-> IF timed THEN Milliseconds(EndTime(t[1], t[2])) ELSE 0]
          : v \in IF out_sample_count = 0 THEN {0} ELSE PcmValues,
            t \in IF timed THEN (0..MaxTicks) \X (0..MaxTicks) ELSE {<<0, 0>>} }
        : out_sample_count \in DecodeResults(frame_size) }
      : decoded_sample_count \in ProbeResults }

\* mutant: no early return, the result fields are pushed on failure too
ResponseWords_NoReturn(r, timed) ==
    IF ~r.ok THEN <<"ResultCode(-1)", U(0, U32Bytes), 0>>
    ELSE IF timed
         THEN <<"RESULT_SUCCESS", r.consumed, r.sample_count, r.performance>>
         ELSE <<"RESULT_SUCCESS", r.consumed, r.sample_count>>

\* the response words the handler pushes
ResponseWords(r, timed) ==
    IF ~r.ok THEN <<"ResultCode(-1)">>
    ELSE IF timed
         THEN <<"RESULT_SUCCESS", r.consumed, r.sample_count, r.performance>>
         ELSE <<"RESULT_SUCCESS", r.consumed, r.sample_count>>

\* mutant: no early return, the output vector is written on failure too
WrittenSamples_NoReturn(r, output_len) ==
    SamplesAfterDecode(output_len, IF r.ok THEN r.pcm ELSE <<>>)

\* the samples the handler hands to ctx.WriteBuffer
WrittenSamples(r, output_len) ==
    IF ~r.ok THEN <<>> ELSE SamplesAfterDecode(output_len, r.pcm)

\* a decode handler, for the requests with these inputs and output sizes
DecodeWith(self, op, timed, inputs, write_sizes) ==
    /\ Idle
    /\ sessions[self].state = "Open"
    /\ \E input \in inputs, write_size \in write_sizes :
         LET output_len == write_size \div SampleSize IN
         \E r \in Decoder_DecodeInterleaved(sessions[self], input, output_len, timed) :
           /\ last' = [op |-> op, session |-> self,
                       req |-> [input |-> input, write_size |-> write_size],
                       status |-> IF r.ok THEN "Success" ELSE "Failure",
                       error |-> r.error,
                       rb |-> ResponseWords(r, timed),
                       written |-> WrittenSamples(r, output_len),
                       pcm |-> IF r.ok THEN r.pcm ELSE <<>>,
                       in_decode |-> IF r.ok THEN r.in_decode ELSE 0,
                       calls |-> r.calls]
           /\ UNCHANGED <<sessions, heap, crashed, failed_on>>

Decode(self, op, timed) == DecodeWith(self, op, timed, Inputs, WriteBufferSizes)

DecodeOps == {"DecodeInterleaved", "DecodeInterleavedWithPerformance"}

DecodeInterleaved(self) == Decode(self, "DecodeInterleaved", FALSE)

DecodeInterleavedWithPerformance(self) ==
    Decode(self, "DecodeInterleavedWithPerformance", TRUE)

----------------------------------------------------------------------------
(* Clients that issue decode calls concurrently *)

Clients == {1, 2}

NotIssued == [pc |-> "idle", session |-> 0]

\* mutant: a service that accepts a request while a handler is running
DispatcherFree_Always == TRUE

\* the service thread is in no handler: a handler runs to completion before
\* the next request is accepted
DispatcherFree == \A c \in Clients : callers[c].pc # "running"

\* client c sends a decode request for session self
Issue(c, self) ==
    /\ ~crashed
    /\ callers[c].pc = "idle"
    /\ sessions[self].state = "Open"
    /\ callers' = [callers EXCEPT ![c] = [pc |-> "pending", session |-> self]]
    /\ UNCHANGED <<sessions, heap, crashed, last, failed_on>>

\* the service accepts the request of client c and enters the handler
Enter(c) ==
    /\ ~crashed
    /\ callers[c].pc = "pending"
    /\ DispatcherFree
    /\ callers' = [callers EXCEPT ![c].pc = "running"]
    /\ UNCHANGED <<sessions, heap, crashed, last, failed_on>>

\* the requests the concurrent clients send
ClientInputs == {Body(0), <<0, 0, 0, 0>> \o <<0, 0, 0, 0>>}

ClientWriteSizes == {0, MaxCap}

\* the handler of client c's request runs and returns
Return(c) ==
    /\ callers[c].pc = "running"
    /\ DecodeWith(callers[c].session, "DecodeInterleaved", FALSE,
                  ClientInputs, ClientWriteSizes)
    /\ callers' = [callers EXCEPT ![c] = NotIssued]

\* the client takes the response; the service is ready for the next request
ReceiveResponse ==
    /\ ~crashed
    /\ last # NoCall
    /\ last' = NoCall
    /\ failed_on' = IF last.op \in DecodeOps /\ last.status = "Failure"
                     THEN last.session ELSE 0
    /\ UNCHANGED <<sessions, heap, crashed>>

----------------------------------------------------------------------------

Init ==
    /\ sessions = <<>>
    /\ heap = <<>>
    /\ crashed = FALSE
    /\ last = NoCall
    /\ failed_on = 0
    /\ callers = [c \in Clients |-> NotIssued]

\* one client that waits for each response before its next request
Next ==
    \/ GetWorkBufferSize /\ UNCHANGED callers
    \/ OpenOpusDecoder /\ UNCHANGED callers
    \/ \E self \in DOMAIN sessions :
         DecodeInterleaved(self) /\ UNCHANGED callers
    \/ \E self \in DOMAIN sessions :
         DecodeInterleavedWithPerformance(self) /\ UNCHANGED callers
    \/ \E self \in DOMAIN sessions : CloseSession(self) /\ UNCHANGED callers
    \/ ReceiveResponse /\ UNCHANGED callers

Spec == Init /\ [][Next]_vars

\* two clients that send decode requests without waiting for each other
NextConc ==
    \/ OpenOpusDecoder /\ DispatcherFree /\ UNCHANGED callers
    \/ \E c \in Clients : \E self \in DOMAIN sessions : Issue(c, self)
    \/ \E c \in Clients : Enter(c)
    \/ \E c \in Clients : Return(c)
    \/ ReceiveResponse /\ UNCHANGED callers

SpecConc == Init /\ [][NextConc]_vars

\* one client that holds up to MaxSessions sessions
NextSessions ==
    \/ OpenOpusDecoderUpTo(MaxSessions) /\ UNCHANGED callers
    \/ \E self \in DOMAIN sessions :
         /\ DecodeWith(self, "DecodeInterleaved", FALSE,
                       ClientInputs, ClientWriteSizes)
         /\ UNCHANGED callers
    \/ \E self \in DOMAIN sessions : CloseSession(self) /\ UNCHANGED callers
    \/ ReceiveResponse /\ UNCHANGED callers

SpecSessions == Init /\ [][NextSessions]_vars

----------------------------------------------------------------------------
(* The claims.  They read the request, the response and the codec calls of *)
(* the call being answered.                                                *)

IsDecode == last.op \in DecodeOps

DecodeFailed == IsDecode /\ last.status = "Failure"

DecodeSucceeded == IsDecode /\ last.status = "Success"

CodecCalled(fn) == \E i \in DOMAIN last.calls : last.calls[i].fn = fn

\* the sample count the probe reported in this call
Expected == last.calls[1].ret

\* the bytes the expected samples need, as the claim computes them
ExpectedBytes == Expected * sessions[last.session].channel_count * 2

\* C1: a decode call (plain or timed) whose expected sample count times the
\* channel count times 2 is more than the declared output capacity fails with
\* the capacity error, and opus_decode is not invoked in that call.
C1_CapacityCheckedBeforeDecode ==
    (IsDecode /\ CodecCalled("opus_packet_get_nb_samples")
        /\ ExpectedBytes > last.req.write_size)
    => /\ last.status = "Failure"
       /\ last.error = "Decoded data does not fit into the output data"
       /\ ~CodecCalled("opus_decode")

C1_Witness ==
    /\ DecodeFailed
    /\ CodecCalled("opus_packet_get_nb_samples")
    /\ Expected > 0
    /\ last.req.write_size > 0
    /\ ExpectedBytes > last.req.write_size

\* C2: a decode call whose input is shorter than the 8-byte header fails with
\* the framing error; neither the probe nor the decode of the codec is
\* invoked and nothing is written to the caller's output buffer.
C2_ShortInputIsFramingError ==
    (IsDecode /\ Len(last.req.input) < 8)
    => /\ last.status = "Failure"
       /\ last.error = "Input is smaller than the header size"
       /\ last.calls = <<>>
       /\ last.written = <<>>

C2_Witness ==
    /\ DecodeFailed
    /\ Len(last.req.input) \in 1..7
    /\ last.req.write_size >= 2

\* 8 + payload_size > input length, for the big-endian payload_size in the
\* first four bytes of the input; every input is shorter than 2^16 bytes, so a
\* non-zero high byte alone exceeds it
DeclaredExceedsInput(input) ==
    \/ input[1] > 0
    \/ input[2] > 0
    \/ 8 + input[3] * 256 + input[4] > Len(input)

\* C3: a decode call with at least 8 input bytes whose 8 + payload_size is more
\* than the input length fails with the framing error and the codec is not
\* invoked, also for a payload_size close to 2^32.
C3_PayloadBoundsNotWrapped ==
    (IsDecode /\ Len(last.req.input) >= 8 /\ DeclaredExceedsInput(last.req.input))
    => /\ last.status = "Failure"
       /\ last.error = "Input does not fit in the opus header size"
       /\ last.calls = <<>>

C3_Witness ==
    /\ DecodeFailed
    /\ Len(last.req.input) >= 8
    /\ SubSeq(last.req.input, 1, 4) = <<255, 255, 255, 248>>
    /\ last.calls = <<>>

\* C4: on a successful decode call the samples written to the caller's output
\* are exactly the first sample_count * channel_count samples the codec
\* produced, and nothing after them is written.
C4_WritesOnlyDecodedSamples ==
    DecodeSucceeded
    => /\ Len(last.pcm) = last.rb[3] * sessions[last.session].channel_count
       /\ last.written = last.pcm

\* C5: in DecodeInterleavedWithPerformance the reported time is that of the
\* codec's decode call alone, in whole milliseconds, and is not negative.
C5_ElapsedCoversDecodeOnly ==
    (DecodeSucceeded /\ last.op = "DecodeInterleavedWithPerformance")
    => /\ last.rb[4] >= 0
       /\ last.rb[4] = last.in_decode \div TicksPerMs

\* the payload_size of a header whose two high bytes are zero
DeclaredPayloadSize(input) == input[3] * 256 + input[4]

\* C6: on a successful decode call consumed is 8 + the declared payload_size,
\* whatever the codec's sample count and whatever follows the payload.
C6_ConsumedIsHeaderPlusPayload ==
    DecodeSucceeded
    => /\ last.req.input[1] = 0
       /\ last.req.input[2] = 0
       /\ last.rb[2][4] = 0
       /\ NatOf(last.rb[2]) = 8 + DeclaredPayloadSize(last.req.input)

C6_Witness ==
    /\ DecodeSucceeded
    /\ DeclaredPayloadSize(last.req.input) = 0
    /\ Len(last.req.input) > 8
    /\ last.rb[3] > 0

\* a failed decode call answers with the failure status alone, writes nothing
\* and leaves its session open; once the client has taken the failure, the
\* session is still open with a whitelisted configuration and the next decode
\* call on it is accepted
C7_FailureState ==
    /\ DecodeFailed
       => /\ last.rb = <<"ResultCode(-1)">>
          /\ last.written = <<>>
          /\ sessions[last.session].state = "Open"
    /\ (failed_on # 0 /\ last = NoCall)
       => /\ sessions[failed_on].state = "Open"
          /\ ENABLED DecodeInterleaved(failed_on)
          /\ ENABLED DecodeInterleavedWithPerformance(failed_on)

\* a failing decode call changes no session and no scratch buffer
C7_FailureStep ==
    (last'.op \in DecodeOps /\ last'.status = "Failure" /\ last = NoCall)
    => sessions' = sessions /\ heap' = heap /\ crashed' = crashed

\* C7: after a failed decode call (framing, capacity or codec error) the
\* response is the generic failure status only, with no result fields and no
\* output, the session stays Open with its sample_rate and channel_count
\* unchanged, and a following decode call on it is accepted; also after
\* several failed calls in a row.
C7_FailedCallLeavesSessionUsable ==
    []C7_FailureState /\ [][C7_FailureStep]_vars

\* a decode call succeeds right after a failed one on the same session
C7_Witness ==
    /\ DecodeSucceeded
    /\ failed_on = last.session
    /\ last.rb[3] > 0

IsOpen == last.op = "OpenOpusDecoder"

Whitelisted(req) ==
    /\ req.sample_rate \in {8000, 12000, 16000, 24000, 48000}
    /\ req.channel_count \in {1, 2}

\* no session owns the scratch buffer of the call being answered
NoSessionCreated ==
    /\ "PushIpcInterface" \notin {last.calls[i] : i \in DOMAIN last.calls}
    /\ "handle" \notin DOMAIN last
    /\ \A i \in DOMAIN sessions :
         "decoder" \in DOMAIN last => sessions[i].decoder # last.decoder

\* C8: OpenOpusDecoder with whitelisted sample_rate and channel_count and a
\* buffer size below the work-buffer size of that channel_count does not
\* return success and creates no session.
C8_UndersizedBufferNeverOpens ==
    (IsOpen /\ Whitelisted(last.req)
        /\ last.req.buffer_sz < opus_decoder_get_size(last.req.channel_count))
    => /\ last.status # "Success"
       /\ last.rb = <<>>
       /\ NoSessionCreated

C8_Witness ==
    /\ IsOpen
    /\ Whitelisted(last.req)
    /\ last.req.buffer_sz < opus_decoder_get_size(last.req.channel_count)
    /\ last.req.buffer_sz > 0
    /\ last.status = "Aborted"

\* C9: when opus_decoder_init reports a non-zero status the scratch buffer
\* just allocated is released exactly once, the response is the generic
\* failure code, and no session is created or registered.
C9_InitFailureReleasesBuffer ==
    (IsOpen /\ "err" \in DOMAIN last /\ last.err # 0)
    => /\ heap[last.decoder].freed = 1
       /\ last.status = "Failure"
       /\ last.rb = <<"ResultCode(-1)">>
       /\ NoSessionCreated

C9_Witness ==
    /\ IsOpen
    /\ "err" \in DOMAIN last
    /\ last.err # 0
    /\ last.status = "Failure"

\* C10: in GetWorkBufferSize and OpenOpusDecoder a sample_rate outside
\* {8000, 12000, 16000, 24000, 48000} or a channel_count outside {1, 2} is
\* rejected before the work-buffer size is computed, a scratch buffer is
\* allocated or the codec is initialized, and no session is created: every
\* session has a whitelisted configuration.
C10_ValidatedBeforeSizeAllocInit ==
    /\ (last.op \in {"GetWorkBufferSize", "OpenOpusDecoder"}
           /\ ~Whitelisted(last.req))
       => /\ last.calls = <<>>
          /\ last.status = "Aborted"
          /\ last.rb = <<>>
          /\ NoSessionCreated
    /\ \A i \in DOMAIN sessions :
         sessions[i].state = "Open" => Whitelisted(sessions[i])

C10_Witness ==
    /\ last.op = "GetWorkBufferSize"
    /\ last.req.sample_rate = 44100
    /\ last.req.channel_count = 2
    /\ last.status = "Aborted"

\* C11: two decode calls issued concurrently on one session are never
\* interleaved: at most one call is between its entry and its return on a
\* session at any time, the other waits until the first has returned.
C11_NoInterleavedCallsOnSession ==
    \A c, d \in Clients :
        (c # d /\ callers[c].pc = "running" /\ callers[d].pc = "running")
        => callers[c].session # callers[d].session

\* one call is in its handler while the other client's call on the same
\* session waits
C11_Witness ==
    \E c, d \in Clients :
        /\ c # d
        /\ callers[c].pc = "running"
        /\ callers[d].pc = "pending"
        /\ callers[c].session = callers[d].session

\* the scratch buffer is owned by a session whose handle is open
Owned(b) ==
    \E s \in DOMAIN sessions :
        sessions[s].state = "Open" /\ sessions[s].decoder = b

\* C12: every allocated scratch buffer is released exactly once, on the init
\* failure or when the handle of its session is closed, and never twice; a
\* buffer is unreleased exactly while an open session owns it, and the buffer
\* a decode hands to the codec is unreleased.
C12_BufferReleasedExactlyOnce ==
    /\ \A b \in DOMAIN heap :
         /\ heap[b].freed <= 1
         /\ (heap[b].freed = 0) <=> Owned(b)
    /\ (IsDecode /\ CodecCalled("opus_decode"))
       => heap[last.calls[2].decoder].freed = 0

\* one session was closed and its buffer released, another one decodes
C12_Witness ==
    /\ \E s \in DOMAIN sessions :
         sessions[s].state = "Closed" /\ heap[sessions[s].decoder].freed = 1
    /\ DecodeSucceeded
    /\ CodecCalled("opus_decode")

OpenSucceeded == last.op = "OpenOpusDecoder" /\ last.status = "Success"

C13_SessionState ==
    /\ \A s, t \in DOMAIN sessions :
         s # t => sessions[s].decoder # sessions[t].decoder
    /\ OpenSucceeded
       => /\ last.handle = Len(sessions)
          /\ sessions[last.handle] =
               NewSession(Len(heap), last.req.sample_rate, last.req.channel_count)
    /\ (IsDecode /\ CodecCalled("opus_decode"))
       => last.calls[2].decoder = sessions[last.session].decoder

C13_SessionStep ==
    /\ (last = NoCall /\ last'.op = "OpenOpusDecoder" /\ last'.status = "Success")
       => /\ Len(sessions') = Len(sessions) + 1
          /\ SubSeq(sessions', 1, Len(sessions)) = sessions
          /\ Len(heap') = Len(heap) + 1
          /\ SubSeq(heap', 1, Len(heap)) = heap
    /\ (last = NoCall /\ last'.op \in DecodeOps)
       => /\ sessions' = sessions
          /\ heap' = heap

\* C13: each successful OpenDecoder creates exactly one new session, whose
\* scratch buffer is newly allocated and is the buffer of no other session;
\* a decode hands the codec the buffer of the session it was called on, and
\* leaves the buffer, sample_rate and channel_count of every session as they
\* were.
C13_SessionsAreIndependent ==
    []C13_SessionState /\ [][C13_SessionStep]_vars

\* two open sessions of different channel counts, and a decode on the second
C13_Witness ==
    /\ Len(sessions) = 2
    /\ sessions[1].state = "Open"
    /\ sessions[2].state = "Open"
    /\ sessions[1].channel_count # sessions[2].channel_count
    /\ DecodeSucceeded
    /\ last.session = 2
    /\ CodecCalled("opus_decode")

\* C14: GetWorkBufferSize answers a whitelisted request with the codec's
\* size for the channel count, whatever the sample rate and whatever calls
\* came before; the scratch buffer OpenOpusDecoder allocates has that same
\* size for the session's channel count, not the size the caller supplied.
C14_SizeDependsOnChannelCountOnly ==
    /\ (last.op = "GetWorkBufferSize" /\ last.status = "Success")
       => last.rb[2] = opus_decoder_get_size(last.req.channel_count)
    /\ (IsOpen /\ last.status \in {"Success", "Failure"})
       => heap[last.decoder].size = opus_decoder_get_size(last.req.channel_count)

\* a session opened for two channels with a buffer size larger than required
C14_Witness ==
    /\ OpenSucceeded
    /\ last.req.channel_count = 2
    /\ last.req.buffer_sz > heap[last.decoder].size

\* C15: the probe of a decode call is given the header's declared
\* payload_size as the length of the payload, not the length of all the input
\* after the header.
C15_ProbeGetsDeclaredPayloadSize ==
    (IsDecode /\ CodecCalled("opus_packet_get_nb_samples"))
    => last.calls[1].len = DeclaredPayloadSize(last.req.input)

\* C16: whenever opus_decode is invoked its frame-size ceiling is
\* floor(output_capacity / 2 / channel_count), so the ceiling times the
\* channel count times 2 is at most the output capacity; with a codec that
\* returns at most the ceiling, the sample count of a successful call times
\* the channel count times 2 is at most the output capacity.
C16_FrameCeilingFitsCapacity ==
    (IsDecode /\ CodecCalled("opus_decode"))
    => LET channel_count == sessions[last.session].channel_count
           capacity == last.req.write_size
           ceiling == last.calls[2].frame_size
       IN /\ ceiling = (capacity \div 2) \div channel_count
          /\ ceiling * channel_count * 2 <= capacity
          /\ last.status = "Success"
             => last.rb[3] * channel_count * 2 <= capacity

\* a two-channel decode that fills the output capacity
C16_Witness ==
    /\ DecodeSucceeded
    /\ sessions[last.session].channel_count = 2
    /\ last.rb[3] > 0
    /\ last.rb[3] = last.calls[2].frame_size

\* C17: a non-negative return of opus_decode is the sample_count of the
\* successful call, also when it is less than the probe's estimate; a
\* negative return fails the call with the codec error, and the call reports
\* no sample_count, no consumed and no output.
C17_SampleCountIsDecodeReturn ==
    (IsDecode /\ CodecCalled("opus_decode"))
    => IF last.calls[2].ret >= 0
       THEN /\ last.status = "Success"
            /\ last.rb[3] = last.calls[2].ret
       ELSE /\ last.status = "Failure"
            /\ last.error = "Incorrect sample count received from opus_decode"
            /\ last.rb = <<"ResultCode(-1)">>
            /\ last.written = <<>>

\* the codec produced fewer samples than the probe estimated
C17_Witness ==
    /\ DecodeSucceeded
    /\ last.calls[2].ret < Expected

\* C18: a decode call on a session of one or two channels whose probe
\* returns a negative status fails, whatever the output capacity, and
\* opus_decode is not invoked: the product of the status and the channel
\* count wraps to a size above the capacity.
C18_NegativeProbeNeverDecodes ==
    (IsDecode /\ CodecCalled("opus_packet_get_nb_samples") /\ Expected < 0)
    => /\ last.status = "Failure"
       /\ ~CodecCalled("opus_decode")

\* a rejected payload with the largest output capacity, on two channels
C18_Witness ==
    /\ DecodeFailed
    /\ CodecCalled("opus_packet_get_nb_samples")
    /\ Expected < 0
    /\ last.req.write_size = MaxCap
    /\ sessions[last.session].channel_count = 2

====
